---- MODULE Spec2Model ----
(***************************************************************************)
(* Model of the session layer of musicd (src/client.c): one client_t, its  *)
(* two byte buffers, its protocol binding and the per-readiness-event step *)
(* client_process, together with client_write, client_has_data and         *)
(* client_close.                                                           *)
(*                                                                         *)
(* Bytes are identified by the position at which they entered their stream *)
(* (the k-th byte ever read is the value k, the k-th byte ever appended to *)
(* the output buffer is the value k), so that loss, duplication and        *)
(* reordering of bytes are visible in the buffers' contents.  What the     *)
(* protocol plug-ins (detect, open, process, feed) and the system calls    *)
(* (read, write) answer is chosen nondeterministically.                    *)
(***************************************************************************)
EXTENDS Integers, Sequences, FiniteSets, TLC

VARIABLES
  protocol,   \* client->protocol: 0 (NULL) or the index of the bound descriptor
  self,       \* client->self: 0 (NULL) or the handle returned by open
  inbuf,      \* client->inbuf
  outbuf,     \* client->outbuf
  feed,       \* client->feed
  alive,      \* FALSE once client_close has freed the client
  result,     \* the value returned by the last client_process (0 before any)
  received,   \* every byte read() ever delivered, in order
  consumed,   \* every byte process() ever reported consumed, in order
  appended,   \* every byte ever appended to outbuf, in order
  written,    \* every byte write() ever accepted, in order
  opens,      \* number of protocol->open calls over the life of the client
  last,       \* the operation that produced the current state
  teardown,   \* the calls client_close made, in order
  sent,       \* what the last client_send did (see NoSend)
  query,      \* the query_t of query.c (see NoQuery)
  qlog,       \* what the last operation on the query did (see NoQlog)
  cycle       \* what the last client_process did (see NoCycle)

vars == <<protocol, self, inbuf, outbuf, feed, alive, result, received,
          consumed, appended, written, opens, last, teardown, sent, query,
          qlog, cycle>>

----------------------------------------------------------------------------
(* Bounds of the model *)

\* number of descriptors in the NULL-terminated protocols[] array
NumProtocols == 3
\* total number of bytes read() delivers over the life of the client
MaxIn == 2
\* total number of bytes appended to outbuf over the life of the client
MaxOut == 3
\* most bytes one callback (open, process, feed) or client_write appends
MaxChunk == 2
\* number of client_send calls on one client
MaxSends == 2
\* most characters of a filter text given to query_filter
MaxFilterLen == 2
\* number of query_filter calls on one query
MaxFilterCalls == 2
\* most pieces of a sort string given to query_sort_from_string
MaxSortLen == 3

(* Program constants *)

\* the size passed to read()
ReadSize == 1024
\* the first size of client_send's intermediate buffer
SendBufSize == 128

NULL == 0

Min(a, b) == IF a < b THEN a ELSE b

\* the next k bytes of a stream of which base bytes already exist
Fresh(base, k) == [i \in 1..k |-> base + i]

----------------------------------------------------------------------------
(* string_t, the byte buffer behind inbuf and outbuf *)

StringSize(s) == Len(s)

StringNAppend(s, data) == s \o data

StringRemoveFront(s, n) == SubSeq(s, n + 1, Len(s))

----------------------------------------------------------------------------
(* The client as a record, threaded through the steps of client_process *)

Client ==
  [protocol |-> protocol, self |-> self, inbuf |-> inbuf, outbuf |-> outbuf,
   feed |-> feed, received |-> received, consumed |-> consumed,
   appended |-> appended, written |-> written, opens |-> opens]

\* the record of one client_process call
NoCycle ==
  [read      |-> "none",  \* "eof", "wouldblock", "error" or "data"
   preProtocol |-> NULL,  \* client->protocol on entry
   preIn     |-> <<>>,    \* inbuf on entry
   preOut    |-> <<>>,    \* outbuf on entry
   preFeed   |-> FALSE,   \* client->feed on entry
   readBuf   |-> <<>>,    \* the bytes read() delivered
   readIn    |-> <<>>,    \* inbuf after read_data
   probed    |-> <<>>,    \* descriptors whose detect was called, in order
   matches   |-> {},      \* descriptors whose detect would answer 1
   opened    |-> 0,       \* number of open calls
   openQueued |-> <<>>,   \* the bytes open queued in outbuf
   writes    |-> 0,       \* number of write() calls
   offered   |-> <<>>,    \* the bytes offered to write()
   wrote     |-> 0,       \* what write() returned
   writeErr  |-> "none",  \* errno of a failed write()
   flushOut  |-> <<>>,    \* outbuf after the flush step
   dispatch  |-> FALSE,   \* the process/feed decision (line 157) was reached
   dispIn    |-> <<>>,    \* inbuf at that decision
   dispOut   |-> <<>>,    \* outbuf at that decision
   dispFeed  |-> FALSE,   \* client->feed at that decision
   processes |-> 0,       \* number of process calls
   processArg |-> <<>>,   \* the bytes handed to process
   processRet |-> 0,      \* what process returned
   feeds     |-> 0,       \* number of feed calls
   queued    |-> <<>>]    \* the bytes process or feed queued in outbuf

----------------------------------------------------------------------------
(* The outcomes of the system calls and of the plug-in callbacks *)

\* read(fd, buffer, 1024): n = 0, n < 0 with errno, or n bytes
ReadOutcomes ==
  {[n |-> 0, errno |-> "none"],
   [n |-> -1, errno |-> "EWOULDBLOCK"],
   [n |-> -1, errno |-> "ECONNRESET"]}
  \cup {[n |-> k, errno |-> "none"] :
          k \in 1..Min(ReadSize, MaxIn - Len(received))}

\* write(fd, data, size): n < 0 with errno, or 0..size bytes accepted
WriteOutcomes(size) ==
  {[n |-> -1, errno |-> "EWOULDBLOCK"], [n |-> -1, errno |-> "EPIPE"]}
  \cup {[n |-> k, errno |-> "none"] : k \in 0..size}

\* what every descriptor's detect answers on the current input
Detects == [1..NumProtocols -> {0, 1}]

\* what a callback does to the client it holds: bytes queued through
\* client_write/client_send and the feed flag it leaves
Effects(c) ==
  [out : 0..Min(MaxChunk, MaxOut - Len(c.appended)), feed : BOOLEAN]

\* the negative value by which process signals a fatal protocol error; it
\* differs from the -1 of read_data, write_data and a failed detection
ProcessError == -2

\* what process answers for len bytes: the error or 0..len bytes consumed
ProcessRets(len) == {ProcessError} \cup 0..len

----------------------------------------------------------------------------
(* client_write: append n bytes to the output buffer *)

ClientWriteData(c, data) ==
  [c EXCEPT !.outbuf = StringNAppend(@, data), !.appended = @ \o data]

\* a plug-in callback running on the client: it queues e.out bytes and
\* leaves the feed flag at e.feed
Callback(c, e) ==
  [ClientWriteData(c, Fresh(Len(c.appended), e.out)) EXCEPT !.feed = e.feed]

----------------------------------------------------------------------------
(* client_send: format into a buffer that grows until the message fits *)

\* string_append: the bytes of a NUL-terminated string are appended
StringAppend(s, cstr) == s \o cstr

\* the record of one client_send call
NoSend ==
  [calls  |-> 0,       \* number of client_send calls so far
   libc   |-> "none",  \* which vsnprintf the C library has
   msg    |-> <<>>,    \* the formatted message
   pre    |-> <<>>,    \* outbuf before the call
   ret    |-> 0,       \* what client_send returned
   size   |-> 0,       \* the last size of the intermediate buffer
   passes |-> 0]       \* number of vsnprintf calls

\* the lengths of the messages formatted, around the first buffer size and
\* around its double
SendLens ==
  {0, 1, SendBufSize - 1, SendBufSize, SendBufSize + 1,
   2 * SendBufSize, 2 * SendBufSize + 1}

\* a C99 vsnprintf reports the length the message needs; an older one
\* reports -1 when the message does not fit
Libcs == {"c99", "pre-c99"}

\* vsnprintf(buf, size, format, args): at most size - 1 bytes of msg and a
\* NUL are stored in buf
Vsnprintf(size, msg, libc) ==
  [n |-> IF libc = "c99" \/ Len(msg) < size THEN Len(msg) ELSE -1,
   buf |-> SubSeq(msg, 1, Min(size - 1, Len(msg)))]

\* client_send formatting once into the first buffer, without the retry
SendLoopOnce(msg, size, libc, passes) ==
  LET r == Vsnprintf(size, msg, libc)
  IN [n |-> r.n, buf |-> r.buf, size |-> size, passes |-> passes]

\* lines 185-201: the loop of client_send
RECURSIVE SendLoop(_, _, _, _)
SendLoop(msg, size, libc, passes) ==
  LET r == Vsnprintf(size, msg, libc)
  IN IF r.n > -1 /\ r.n < size
     THEN [n |-> r.n, buf |-> r.buf, size |-> size, passes |-> passes]
     ELSE SendLoop(msg, IF r.n > -1 THEN r.n + 1 ELSE size * 2, libc,
                   passes + 1)

----------------------------------------------------------------------------
(* read_data *)

ReadClass(rd) ==
  IF rd.n = 0 THEN "eof"
  ELSE IF rd.n < 0
       THEN (IF rd.errno = "EWOULDBLOCK" THEN "wouldblock" ELSE "error")
       ELSE "data"

\* read_data with EWOULDBLOCK treated like any other failed read
ReadDataWouldBlockFails(c, rd) ==
  IF rd.n <= 0 THEN [ret |-> -1, c |-> c]
  ELSE LET buffer == Fresh(Len(c.received), rd.n)
       IN [ret |-> rd.n,
           c |-> [c EXCEPT !.inbuf = StringNAppend(@, buffer),
                           !.received = @ \o buffer]]

\* read_data without the n == 0 test: end of file reads as "no data"
ReadDataIgnoresEof(c, rd) ==
  IF rd.n < 0
  THEN IF rd.errno = "EWOULDBLOCK"
       THEN [ret |-> 0, c |-> c]
       ELSE [ret |-> -1, c |-> c]
  ELSE LET buffer == Fresh(Len(c.received), rd.n)
       IN [ret |-> rd.n,
           c |-> [c EXCEPT !.inbuf = StringNAppend(@, buffer),
                           !.received = @ \o buffer]]

ReadData(c, rd) ==
  IF rd.n = 0 THEN [ret |-> -1, c |-> c]
  ELSE IF rd.n < 0
       THEN IF rd.errno = "EWOULDBLOCK"
            THEN [ret |-> 0, c |-> c]
            ELSE [ret |-> -1, c |-> c]
       ELSE LET buffer == Fresh(Len(c.received), rd.n)
            IN [ret |-> rd.n,
                c |-> [c EXCEPT !.inbuf = StringNAppend(@, buffer),
                                !.received = @ \o buffer]]

(* write_data *)

\* write_data dropping the n bytes from the back of the buffer
WriteDataRemovesBack(c, wr) ==
  IF wr.n < 0
  THEN IF wr.errno = "EWOULDBLOCK"
       THEN [ret |-> 0, c |-> c]
       ELSE [ret |-> -1, c |-> c]
  ELSE [ret |-> 0,
        c |-> [c EXCEPT !.outbuf = SubSeq(@, 1, Len(@) - wr.n),
                        !.written = @ \o SubSeq(c.outbuf, 1, wr.n)]]

\* write_data taking every failed write for a would-block
WriteDataIgnoresErrors(c, wr) ==
  IF wr.n < 0
  THEN [ret |-> 0, c |-> c]
  ELSE [ret |-> 0,
        c |-> [c EXCEPT !.outbuf = StringRemoveFront(@, wr.n),
                        !.written = @ \o SubSeq(c.outbuf, 1, wr.n)]]

\* write() offered one byte at a time
WriteOfferFirstByte(c) == SubSeq(c.outbuf, 1, 1)

\* line 67: the bytes handed to write(): string_string(outbuf), for
\* string_size(outbuf) bytes
WriteOffer(c) == SubSeq(c.outbuf, 1, StringSize(c.outbuf))

WriteData(c, wr) ==
  IF wr.n < 0
  THEN IF wr.errno = "EWOULDBLOCK"
       THEN [ret |-> 0, c |-> c]
       ELSE [ret |-> -1, c |-> c]
  ELSE [ret |-> 0,
        c |-> [c EXCEPT !.outbuf = StringRemoveFront(@, wr.n),
                        !.written = @ \o SubSeq(c.outbuf, 1, wr.n)]]

(* find_protocol *)

\* the loop: the first index from i on whose detect answers 1, or the
\* index of the terminating NULL
RECURSIVE FindLoop(_, _)
FindLoop(det, i) ==
  IF i > NumProtocols THEN i
  ELSE IF det[i] = 1 THEN i
  ELSE FindLoop(det, i + 1)

\* find_protocol without the break: the last matching descriptor wins
FindProtocolLastMatch(det) ==
  LET M == {i \in 1..NumProtocols : det[i] = 1}
  IN [protocol |-> IF M = {} THEN NULL
                   ELSE CHOOSE i \in M : \A j \in M : j <= i,
      probed |-> [i \in 1..NumProtocols |-> i]]

\* find_protocol falling back to the first descriptor when none matches
FindProtocolDefaultsToFirst(det) ==
  LET stop == FindLoop(det, 1)
  IN [protocol |-> IF stop > NumProtocols THEN 1 ELSE stop,
      probed |-> [i \in 1..Min(stop, NumProtocols) |-> i]]

FindProtocol(det) ==
  LET stop == FindLoop(det, 1)
  IN [protocol |-> IF stop > NumProtocols THEN NULL ELSE stop,
      probed |-> [i \in 1..Min(stop, NumProtocols) |-> i]]

(* client_has_data *)

\* client_has_data with && for ||
ClientHasDataBoth(c) ==
  IF StringSize(c.outbuf) > 0 /\ c.feed THEN TRUE ELSE FALSE

ClientHasData(c) ==
  IF StringSize(c.outbuf) > 0 \/ c.feed THEN TRUE ELSE FALSE

----------------------------------------------------------------------------
(* query.c: the fields, the formats and the query *)

QUERY_FIELD_NONE == 0
QUERY_FIELD_ALL == 10

\* field_names[1..QUERY_FIELD_ALL - 1]
FieldNames ==
  <<"id", "trackid", "artistid", "albumid", "title", "artist", "album",
    "track", "duration">>

\* id_fields: id, trackid, artistid, albumid
IdFields == {1, 2, 3, 4}

\* the maps of the three formats, without their NULL entries
TrackMaps ==
  [i \in 1..QUERY_FIELD_ALL |->
     <<"tracks.rowid", "tracks.rowid", "tracks.artist", "tracks.album",
       "tracks.title", "artists.name", "albums.name", "tracks.track",
       "tracks.duration", "(COALESCE(tracks.title, '') || ...)">>[i]]

ArtistMaps ==
  (1 :> "artists.rowid") @@ (3 :> "artists.rowid") @@ (6 :> "artists.name")
  @@ (10 :> "(COALESCE(artists.name, ''))")

AlbumMaps ==
  (1 :> "albums.rowid") @@ (4 :> "albums.rowid") @@ (7 :> "albums.name")
  @@ (10 :> "(COALESCE(albums.name, ''))")

Formats == {"tracks", "artists", "albums"}

Maps(format) ==
  CASE format = "tracks" -> TrackMaps
    [] format = "artists" -> ArtistMaps
    [] format = "albums" -> AlbumMaps

\* query->format->maps[field] is not NULL
Mapped(q, field) == field \in DOMAIN Maps(q.format)

\* no query yet; filters holds the fields whose filter is not NULL
NoQuery ==
  [format |-> "none", filters |-> <<>>, order |-> <<>>, stmt |-> FALSE]

\* query_new, with the format the caller's constructor sets
QueryNew(format) == [NoQuery EXCEPT !.format = format]

\* the record of one operation on the query
NoQlog ==
  [op       |-> "none",
   field    |-> QUERY_FIELD_NONE,  \* the field given to query_filter
   input    |-> <<>>,    \* the text given to query_filter
   preOrder |-> <<>>,    \* query->order before query_sort_from_string
   ret      |-> 0,       \* the value returned
   sql      |-> <<>>,    \* the WHERE clause build_filters made
   holes    |-> <<>>,    \* for each '?' of the clause, the field it is for
   binds    |-> <<>>,    \* the sqlite3_bind_text calls of bind_filters
   filterCalls |-> 0,    \* number of query_filter calls so far
   sortCalls   |-> 0]    \* number of query_sort_from_string calls so far

Digits == {"0", "1", "2", "3", "4", "5", "6", "7", "8", "9"}

\* the characters of the filter texts tried: a digit, the comma, another
FilterChars == {"7", ",", "x"}

\* the texts of at most n characters
RECURSIVE Texts(_, _)
Texts(chars, n) ==
  IF n = 0 THEN {<<>>}
  ELSE LET shorter == Texts(chars, n - 1)
       IN shorter \cup {Append(t, ch) : t \in shorter, ch \in chars}

\* line 203: the characters query_filter keeps for an id field
IsListChar(ch) == ch = "," \/ ch \in Digits

\* lines 194-207 of query_filter, for a filter that is not NULL
FilterText(field, filter) ==
  IF field \notin IdFields
  THEN <<"%">> \o filter \o <<"%">>
  ELSE SelectSeq(filter, IsListChar)

\* query_filter with a filter that is not NULL
QueryFilterSet(q, field, filter) ==
  [q EXCEPT !.filters =
     (field :> FilterText(field, filter))
       @@ [i \in DOMAIN q.filters \ {field} |-> q.filters[i]]]

\* query_filter with a NULL filter
QueryFilterClear(q, field) ==
  [q EXCEPT !.filters = [i \in DOMAIN q.filters \ {field} |-> q.filters[i]]]

\* query_field_from_string; a name is the pieces between two commas
QueryFieldFromString(name) ==
  IF Len(name) = 1 /\ \E i \in 1..Len(FieldNames) : FieldNames[i] = name[1]
  THEN CHOOSE i \in 1..Len(FieldNames) : FieldNames[i] = name[1]
  ELSE IF name = <<"all">> \/ name = <<"search">>
       THEN QUERY_FIELD_ALL
       ELSE QUERY_FIELD_NONE

\* query_sort
QuerySort(q, field, descending) ==
  IF ~Mapped(q, field) THEN q
  ELSE [q EXCEPT !.order =
          (IF Len(@) > 0 THEN @ \o <<", ">> ELSE @)
            \o <<Maps(q.format)[field], " COLLATE NOCASE ",
                 IF descending THEN "DESC" ELSE "ASC">>]

\* line 250: the index of the first comma from i on, or of the end
RECURSIVE NameEnd(_, _)
NameEnd(sort, i) ==
  IF i > Len(sort) THEN i
  ELSE IF sort[i] = "," THEN i
  ELSE NameEnd(sort, i + 1)

\* lines 242-269: the loop of query_sort_from_string, from position pos
RECURSIVE SortLoop(_, _, _)
SortLoop(q, sort, pos) ==
  IF pos > Len(sort) THEN [ret |-> 0, q |-> q]
  ELSE LET descending == sort[pos] = "-"
           start == IF descending THEN pos + 1 ELSE pos
           end == NameEnd(sort, start)
           field == QueryFieldFromString(SubSeq(sort, start, end - 1))
       IN IF field = QUERY_FIELD_NONE
          THEN [ret |-> -1, q |-> q]
          ELSE SortLoop(QuerySort(q, field, descending), sort,
                        IF end <= Len(sort) THEN end + 1 ELSE end)

QuerySortFromStringOn(q, sort) == SortLoop(q, sort, 1)

\* build_filters: the clause and, for each '?' in it, the field it is for
RECURSIVE BuildLoop(_, _, _)
BuildLoop(q, i, acc) ==
  IF i > QUERY_FIELD_ALL THEN acc
  ELSE IF i \notin DOMAIN q.filters \/ ~Mapped(q, i)
       THEN BuildLoop(q, i + 1, acc)
       ELSE LET joined == acc.sql
                            \o <<IF acc.sql = <<>> THEN "WHERE " ELSE " AND ">>
            IN IF i \notin IdFields
               THEN BuildLoop(q, i + 1,
                      [sql |-> joined \o <<Maps(q.format)[i], " LIKE ", "?">>,
                       holes |-> Append(acc.holes, i)])
               ELSE BuildLoop(q, i + 1,
                      [sql |-> joined \o <<Maps(q.format)[i], " IN (">>
                                 \o q.filters[i] \o <<")">>,
                       holes |-> acc.holes])

BuildFilters(q) == BuildLoop(q, 1, [sql |-> <<>>, holes |-> <<>>])

\* bind_filters: the sqlite3_bind_text calls, in order
RECURSIVE BindLoop(_, _, _, _)
BindLoop(q, i, n, acc) ==
  IF i > QUERY_FIELD_ALL THEN acc
  ELSE IF i \in DOMAIN q.filters /\ i \notin IdFields
       THEN BindLoop(q, i + 1, n + 1,
              Append(acc, [n |-> n, field |-> i, text |-> q.filters[i]]))
       ELSE BindLoop(q, i + 1, n, acc)

BindFilters(q) == BindLoop(q, 1, 1, <<>>)

----------------------------------------------------------------------------
(* client_new *)

Init ==
  /\ protocol = NULL
  /\ self = NULL
  /\ inbuf = <<>>
  /\ outbuf = <<>>
  /\ feed = FALSE
  /\ alive = TRUE
  /\ result = 0
  /\ received = <<>>
  /\ consumed = <<>>
  /\ appended = <<>>
  /\ written = <<>>
  /\ opens = 0
  /\ last = "client_new"
  /\ teardown = <<>>
  /\ sent = NoSend
  /\ query = NoQuery
  /\ qlog = NoQlog
  /\ cycle = NoCycle

----------------------------------------------------------------------------
(* client_process *)

\* client_process returns ret, leaving the client as c, having done t
Return(ret, c, t) ==
  /\ result' = ret
  /\ protocol' = c.protocol
  /\ self' = c.self
  /\ inbuf' = c.inbuf
  /\ outbuf' = c.outbuf
  /\ feed' = c.feed
  /\ received' = c.received
  /\ consumed' = c.consumed
  /\ appended' = c.appended
  /\ written' = c.written
  /\ opens' = c.opens
  /\ cycle' = t
  /\ last' = "client_process"
  /\ UNCHANGED <<alive, teardown, sent, query, qlog>>

\* detection repeated in every cycle
UnboundEveryCycle(c) == TRUE

\* line 127: no protocol detected yet
Unbound(c) == c.protocol = NULL

\* line 142: client->self = client->protocol->open(client)
Open(c, e) ==
  [Callback(c, e) EXCEPT !.self = c.protocol, !.opens = @ + 1]

\* the whole input dropped, whatever process consumed
ProcessInputClears(c, ret) ==
  [c EXCEPT !.inbuf = <<>>,
            !.consumed = @ \o SubSeq(c.inbuf, 1, ret)]

\* line 165: string_remove_front(client->inbuf, result)
ProcessInput(c, ret) ==
  [c EXCEPT !.inbuf = StringRemoveFront(@, ret),
            !.consumed = @ \o SubSeq(c.inbuf, 1, ret)]

\* feed without the test of the output buffer
FeedReadyIgnoresOutput(c) == c.feed

\* line 166: else if (client->feed && string_size(client->outbuf) == 0)
FeedReady(c) == c.feed /\ StringSize(c.outbuf) = 0

\* the bytes appended to outbuf between the client as c and as d
Queued(c, d) == SubSeq(d.appended, Len(c.appended) + 1, Len(d.appended))

\* client_process returning -1 whatever negative value process gave
DispatchReturnsMinusOne(c, t) ==
  LET t1 == [t EXCEPT !.dispatch = TRUE, !.dispIn = c.inbuf,
                      !.dispOut = c.outbuf, !.dispFeed = c.feed]
  IN IF StringSize(c.inbuf) > 0
     THEN \E e \in Effects(c), ret \in ProcessRets(StringSize(c.inbuf)) :
            LET c1 == Callback(c, e)
                t2 == [t1 EXCEPT !.processes = @ + 1, !.processArg = c.inbuf,
                                 !.processRet = ret, !.queued = Queued(c, c1)]
            IN IF ret < 0
               THEN Return(-1, c1, t2)
               ELSE Return(0, ProcessInput(c1, ret), t2)
     ELSE IF FeedReady(c)
          THEN \E e \in Effects(c) :
                 LET c1 == Callback(c, e)
                 IN Return(0, c1, [t1 EXCEPT !.feeds = @ + 1,
                                             !.queued = Queued(c, c1)])
          ELSE Return(0, c, t1)

\* the feed test as an if of its own, after process, instead of an else
DispatchFeedsAfterProcess(c, t) ==
  LET t1 == [t EXCEPT !.dispatch = TRUE, !.dispIn = c.inbuf,
                      !.dispOut = c.outbuf, !.dispFeed = c.feed]
      FeedStep(d, u) ==
        IF StringSize(d.inbuf) = 0 /\ FeedReady(d)
        THEN \E e \in Effects(d) :
               LET d1 == Callback(d, e)
               IN Return(0, d1, [u EXCEPT !.feeds = @ + 1,
                                          !.queued = Queued(c, d1)])
        ELSE Return(0, d, u)
  IN IF StringSize(c.inbuf) > 0
     THEN \E e \in Effects(c), ret \in ProcessRets(StringSize(c.inbuf)) :
            LET c1 == Callback(c, e)
                t2 == [t1 EXCEPT !.processes = @ + 1, !.processArg = c.inbuf,
                                 !.processRet = ret, !.queued = Queued(c, c1)]
            IN IF ret < 0
               THEN Return(ret, c1, t2)
               ELSE FeedStep(ProcessInput(c1, ret), t2)
     ELSE FeedStep(c, t1)

\* lines 157-174: process the input, or feed
Dispatch(c, t) ==
  LET t1 == [t EXCEPT !.dispatch = TRUE, !.dispIn = c.inbuf,
                      !.dispOut = c.outbuf, !.dispFeed = c.feed]
  IN IF StringSize(c.inbuf) > 0
     THEN \E e \in Effects(c), ret \in ProcessRets(StringSize(c.inbuf)) :
            LET c1 == Callback(c, e)
                t2 == [t1 EXCEPT !.processes = @ + 1, !.processArg = c.inbuf,
                                 !.processRet = ret, !.queued = Queued(c, c1)]
            IN IF ret < 0
               THEN Return(ret, c1, t2)
               ELSE Return(0, ProcessInput(c1, ret), t2)
     ELSE IF FeedReady(c)
          THEN \E e \in Effects(c) :
                 LET c1 == Callback(c, e)
                 IN Return(0, c1, [t1 EXCEPT !.feeds = @ + 1,
                                             !.queued = Queued(c, c1)])
          ELSE Return(0, c, t1)

\* lines 145-153: try to purge the outgoing buffer
Flush(c, t) ==
  IF StringSize(c.outbuf) > 0
  THEN \E wr \in WriteOutcomes(Len(WriteOffer(c))) :
         LET w == WriteData(c, wr)
             t1 == [t EXCEPT !.writes = @ + 1, !.offered = WriteOffer(c),
                             !.wrote = wr.n, !.writeErr = wr.errno,
                             !.flushOut = w.c.outbuf]
         IN IF w.ret < 0
            THEN Return(w.ret, w.c, t1)
            ELSE Dispatch(w.c, t1)
  ELSE Dispatch(c, [t EXCEPT !.flushOut = c.outbuf])

\* lines 127-143: detect the protocol and open it
Bind(c, t) ==
  IF Unbound(c)
  THEN \E det \in Detects :
         LET f == FindProtocol(det)
             c1 == [c EXCEPT !.protocol = f.protocol]
             t1 == [t EXCEPT !.probed = f.probed,
                             !.matches = {i \in 1..NumProtocols : det[i] = 1}]
         IN IF c1.protocol = NULL
            THEN Return(-1, c1, t1)
            ELSE \E e \in Effects(c1) :
                   LET c2 == Open(c1, e)
                   IN Flush(c2, [t1 EXCEPT !.opened = @ + 1,
                                           !.openQueued = Queued(c1, c2)])
  ELSE Flush(c, t)

\* the client is still served: not freed, and its last step did not fail
Served == alive /\ result >= 0

\* client_process when read() answers rd
ClientProcessOn(rd) ==
  LET r == ReadData(Client, rd)
      t == [NoCycle EXCEPT !.read = ReadClass(rd),
                           !.preProtocol = protocol, !.preIn = inbuf,
                           !.preOut = outbuf, !.preFeed = feed,
                           !.readBuf = SubSeq(r.c.received,
                                              Len(received) + 1,
                                              Len(r.c.received)),
                           !.readIn = r.c.inbuf]
  IN IF r.ret < 0
     THEN Return(r.ret, r.c, t)
     ELSE Bind(r.c, t)

ClientProcess ==
  /\ Served
  /\ \E rd \in ReadOutcomes : ClientProcessOn(rd)

(* client_write, called by the bound protocol's handler between cycles *)

ClientWrite ==
  /\ Served
  /\ protocol # NULL
  /\ \E n \in 0..Min(MaxChunk, MaxOut - Len(appended)) :
       LET c == ClientWriteData(Client, Fresh(Len(appended), n))
       IN /\ outbuf' = c.outbuf
          /\ appended' = c.appended
  /\ last' = "client_write"
  /\ UNCHANGED <<protocol, self, inbuf, feed, alive, result, received,
                 consumed, written, opens, teardown, sent, query, qlog, cycle>>

(* client_close: the client is freed and never used again *)

\* lines 111-115: what client_close calls, in order
ClientCloseCalls ==
  <<"close(fd)", "free(address)", "string_free(inbuf)",
    "string_free(outbuf)", "free(client)">>

ClientClose ==
  /\ alive
  /\ alive' = FALSE
  /\ teardown' = ClientCloseCalls
  /\ last' = "client_close"
  /\ UNCHANGED <<protocol, self, inbuf, outbuf, feed, result, received,
                 consumed, appended, written, opens, sent, query, qlog, cycle>>

Next == ClientProcess \/ ClientWrite \/ ClientClose

----------------------------------------------------------------------------
(* client_send, called with messages of every length in SendLens *)

ClientSend ==
  /\ Served
  /\ sent.calls < MaxSends
  /\ \E len \in SendLens, libc \in Libcs :
       LET msg == Fresh(Len(appended), len)
           r == SendLoop(msg, SendBufSize, libc, 1)
       IN /\ outbuf' = StringAppend(outbuf, r.buf)
          /\ appended' = appended \o r.buf
          /\ sent' = [calls |-> sent.calls + 1, libc |-> libc, msg |-> msg,
                      pre |-> outbuf, ret |-> r.n, size |-> r.size,
                      passes |-> r.passes]
  /\ last' = "client_send"
  /\ UNCHANGED <<protocol, self, inbuf, feed, alive, result, received,
                 consumed, written, opens, teardown, query, qlog, cycle>>

SendNext == ClientSend \/ ClientClose

SendSpec == Init /\ [][SendNext]_vars

Spec == Init /\ [][Next]_vars

----------------------------------------------------------------------------
(* The output side alone: a client whose peer sends nothing, so that every
   read() would block, while the protocol keeps queueing output. *)

WritableCycle ==
  /\ Served
  /\ ClientProcessOn([n |-> -1, errno |-> "EWOULDBLOCK"])

\* the cycles in which write() accepts at least one byte
FlushProgress == WritableCycle /\ Len(written') > Len(written)

DrainNext == WritableCycle \/ ClientWrite \/ ClientClose

\* the short writes eventually add up to whatever is queued
DrainSpec == Init /\ [][DrainNext]_vars /\ WF_vars(FlushProgress)

----------------------------------------------------------------------------
(* query.c: a query is made, filtered, sorted and started *)

clientVars ==
  <<protocol, self, inbuf, outbuf, feed, alive, result, received, consumed,
    appended, written, opens, last, teardown, sent, cycle>>

\* the pieces of the sort strings tried: the minus sign, the comma, a
\* field name and a name that is no field's
SortPieces == {"-", ",", "title", "bogus"}

QueryTracksNew ==
  /\ query.format = "none"
  /\ query' = QueryNew("tracks")
  /\ qlog' = [NoQlog EXCEPT !.op = "query_tracks_new"]
  /\ UNCHANGED clientVars

QueryArtistsNew ==
  /\ query.format = "none"
  /\ query' = QueryNew("artists")
  /\ qlog' = [NoQlog EXCEPT !.op = "query_artists_new"]
  /\ UNCHANGED clientVars

QueryAlbumsNew ==
  /\ query.format = "none"
  /\ query' = QueryNew("albums")
  /\ qlog' = [NoQlog EXCEPT !.op = "query_albums_new"]
  /\ UNCHANGED clientVars

\* the query exists and has not been started
Building == query.format \in Formats /\ ~query.stmt

QueryFilter ==
  /\ Building
  /\ qlog.filterCalls < MaxFilterCalls
  /\ \E field \in 1..QUERY_FIELD_ALL :
       \/ \E filter \in Texts(FilterChars, MaxFilterLen) :
            /\ query' = QueryFilterSet(query, field, filter)
            /\ qlog' = [NoQlog EXCEPT !.op = "query_filter",
                                      !.field = field, !.input = filter,
                                      !.filterCalls = qlog.filterCalls + 1,
                                      !.sortCalls = qlog.sortCalls]
       \/ /\ query' = QueryFilterClear(query, field)
          /\ qlog' = [NoQlog EXCEPT !.op = "query_filter_null",
                                    !.field = field,
                                    !.filterCalls = qlog.filterCalls + 1,
                                    !.sortCalls = qlog.sortCalls]
  /\ UNCHANGED clientVars

QuerySortFromString ==
  /\ Building
  /\ qlog.sortCalls < 1
  /\ \E sort \in Texts(SortPieces, MaxSortLen) :
       LET r == QuerySortFromStringOn(query, sort)
       IN /\ query' = r.q
          /\ qlog' = [NoQlog EXCEPT !.op = "query_sort_from_string",
                                    !.preOrder = query.order, !.ret = r.ret,
                                    !.filterCalls = qlog.filterCalls,
                                    !.sortCalls = qlog.sortCalls + 1]
  /\ UNCHANGED clientVars

\* query_start: build_filters, sqlite3_prepare_v2 and, when it succeeds,
\* bind_filters
QueryStart ==
  /\ Building
  /\ LET b == BuildFilters(query)
     IN \E prepared \in BOOLEAN :
          /\ query' = [query EXCEPT !.stmt = prepared]
          /\ qlog' = [NoQlog EXCEPT
                        !.op = "query_start",
                        !.ret = IF prepared THEN 0 ELSE -1,
                        !.sql = b.sql, !.holes = b.holes,
                        !.binds = IF prepared THEN BindFilters(query)
                                  ELSE <<>>,
                        !.filterCalls = qlog.filterCalls,
                        !.sortCalls = qlog.sortCalls]
  /\ UNCHANGED clientVars

QueryNext ==
  \/ QueryTracksNew \/ QueryArtistsNew \/ QueryAlbumsNew
  \/ QueryFilter \/ QuerySortFromString \/ QueryStart

QuerySpec == Init /\ [][QueryNext]_vars

----------------------------------------------------------------------------
(* Properties *)

\* the smallest descriptor index of a non-empty set
FirstOf(S) == CHOOSE i \in S : \A j \in S : i <= j

Suffix(s, n) == SubSeq(s, n + 1, Len(s))

\* the last cycle closed the session for one of the three reasons that
\* follow a successful or would-block read
ClosedByLaterStep ==
  \/ cycle.preProtocol = NULL /\ cycle.probed # <<>> /\ cycle.matches = {}
  \/ cycle.writes = 1 /\ cycle.wrote < 0 /\ cycle.writeErr # "EWOULDBLOCK"
  \/ cycle.processes = 1 /\ cycle.processRet < 0

\* C1: in a cycle whose single write attempt leaves the output buffer
\* non-empty (would-block or partial write), process is not invoked.
C1_NoProcessWhileOutputPending ==
  (cycle.writes = 1 /\ cycle.flushOut # <<>>) => cycle.processes = 0

C3_OutputStreamSafe ==
  /\ written \o outbuf = appended
  /\ Len(written) = Len(appended) => outbuf = <<>>
  /\ (cycle.writes = 1 /\ cycle.wrote >= 0) =>
       /\ cycle.wrote <= Len(cycle.offered)
       /\ cycle.flushOut = Suffix(cycle.offered, cycle.wrote)
  /\ (cycle.writes = 1 /\ cycle.wrote < 0) => cycle.flushOut = cycle.offered

C3_OutputStream ==
  /\ []C3_OutputStreamSafe
  /\ (outbuf # <<>>) ~> (outbuf = <<>> \/ ~Served)

\* several chunks were appended and drained by short writes: the last
\* write offered only a proper part of what was appended, took all of it,
\* and everything appended has been written
C3_Witness ==
  /\ last = "client_process" /\ Served
  /\ Len(appended) = MaxOut /\ written = appended /\ outbuf = <<>>
  /\ cycle.writes = 1 /\ cycle.wrote = Len(cycle.offered)
  /\ Len(cycle.offered) \in 1..(Len(appended) - 2)

\* detection was attempted in the last cycle
Detected ==
  cycle.preProtocol = NULL /\ cycle.read \in {"data", "wouldblock"}

\* C4: detection binds the first descriptor, in registration order, whose
\* detect reports a match; descriptors after it are not probed; without a
\* match every descriptor is probed and none is bound.
C4_FirstMatchBinds ==
  Detected =>
    IF cycle.matches = {}
    THEN /\ protocol = NULL
         /\ cycle.probed = [i \in 1..NumProtocols |-> i]
    ELSE /\ protocol = FirstOf(cycle.matches)
         /\ cycle.probed = [i \in 1..FirstOf(cycle.matches) |-> i]

\* the second and the third descriptor both match: the second is bound and
\* the third is not probed
C4_Witness ==
  /\ Detected /\ cycle.matches = {2, 3}
  /\ protocol = 2 /\ cycle.probed = <<1, 2>>

\* C5: once set, the binding never changes; open is called exactly once
\* over the life of the session, in the cycle that binds it, and the
\* handle it returned stays stored.
C5_BoundOnce ==
  /\ [][protocol # NULL => protocol' = protocol]_vars
  /\ [][opens' # opens =>
          (protocol = NULL /\ protocol' # NULL /\ opens' = 1)]_vars
  /\ [](opens = (IF protocol = NULL THEN 0 ELSE 1))
  /\ [](cycle.opened = (IF cycle.preProtocol = NULL /\ protocol # NULL
                        THEN 1 ELSE 0))
  /\ [](self = protocol)

\* a later cycle of a bound session, through to process, without an open
C5_Witness ==
  /\ last = "client_process" /\ cycle.preProtocol # NULL
  /\ cycle.processes = 1 /\ cycle.opened = 0 /\ opens = 1

\* C6: when no descriptor matches, the cycle returns a negative result
\* with no open, write, process or feed, the session stays unbound, and no
\* further cycle (hence no further detection) runs.
C6_NoMatchCloses ==
  (Detected /\ cycle.matches = {}) =>
    /\ result < 0
    /\ protocol = NULL /\ self = NULL /\ opens = 0
    /\ cycle.opened = 0 /\ cycle.writes = 0
    /\ cycle.processes = 0 /\ cycle.feeds = 0 /\ ~cycle.dispatch
    /\ inbuf = cycle.readIn /\ outbuf = <<>>
    /\ ~ENABLED ClientProcess

\* bytes arrived, every descriptor was probed, none matched
C6_Witness ==
  /\ Detected /\ cycle.matches = {} /\ cycle.read = "data"
  /\ Len(cycle.probed) = NumProtocols /\ result = -1

\* C7: a read of 0 bytes makes client_process return a negative result at
\* once, in any session state: no detect, open, write, process or feed,
\* nothing changed.
C7_EofCloses ==
  cycle.read = "eof" =>
    /\ result < 0
    /\ cycle.probed = <<>> /\ cycle.opened = 0 /\ cycle.writes = 0
    /\ cycle.processes = 0 /\ cycle.feeds = 0 /\ ~cycle.dispatch
    /\ protocol = cycle.preProtocol
    /\ inbuf = cycle.preIn /\ feed = cycle.preFeed
    /\ last = "client_process" => outbuf = cycle.preOut

\* end of file on a bound session with input and output pending
C7_Witness ==
  /\ cycle.read = "eof" /\ cycle.preProtocol # NULL
  /\ cycle.preIn # <<>> /\ cycle.preOut # <<>> /\ result = -1

\* C8: process is handed the unconsumed remainder followed by the bytes
\* just read; after it returns consumed in 0..len, the input buffer is its
\* argument without the first consumed bytes, in order, and the cycle
\* succeeds; no byte is handed over again once consumed, none is lost.
C8_ConsumedRemoved ==
  /\ consumed \o inbuf = received
  /\ cycle.processes = 1 =>
       /\ cycle.processArg = cycle.preIn \o cycle.readBuf
       /\ last = "client_process" =>
            consumed \o Suffix(cycle.processArg,
                               IF cycle.processRet < 0 THEN 0
                               ELSE cycle.processRet) = received
  /\ (last = "client_process" /\ cycle.processes = 1
        /\ cycle.processRet >= 0) =>
       /\ inbuf = Suffix(cycle.processArg, cycle.processRet)
       /\ result = 0
       /\ cycle.processRet = 0 => inbuf = cycle.processArg

\* process consumed part of a remainder left by an earlier cycle plus new
\* bytes
C8_Witness ==
  /\ last = "client_process" /\ cycle.processes = 1
  /\ cycle.preIn # <<>> /\ cycle.readBuf # <<>>
  /\ cycle.processRet = 1 /\ inbuf # <<>> /\ result = 0

\* the process/feed decision found no input, no output and the feed flag
FeedCase ==
  /\ cycle.dispatch
  /\ cycle.dispIn = <<>> /\ cycle.dispOut = <<>> /\ cycle.dispFeed

\* C9: feed is invoked only with the input buffer empty, the output buffer
\* empty and the feed flag set at that point, and then exactly once and
\* without process.
C9_FeedOnlyWhenIdle ==
  /\ cycle.feeds \in {0, 1}
  /\ cycle.feeds = 1 <=> FeedCase
  /\ FeedCase => cycle.processes = 0

\* feed ran after the write of this cycle emptied the output buffer
C9_Witness ==
  /\ cycle.feeds = 1 /\ cycle.writes = 1 /\ cycle.preOut # <<>>
  /\ cycle.processes = 0

\* C10: client_has_data is true exactly when the output buffer is
\* non-empty or the feed flag is set; so it is true after a client_write
\* that leaves bytes queued and after a partial write.
C10_HasData ==
  /\ ClientHasData(Client) = (Len(outbuf) > 0 \/ feed)
  /\ (last = "client_write" /\ outbuf # <<>>) => ClientHasData(Client)
  /\ (last = "client_process" /\ cycle.writes = 1 /\ cycle.flushOut # <<>>)
       => ClientHasData(Client)
  /\ (outbuf = <<>> /\ ~feed) => ~ClientHasData(Client)

\* a partial write left bytes queued, the feed flag is clear
C10_Witness ==
  /\ last = "client_process" /\ cycle.writes = 1
  /\ cycle.wrote > 0 /\ cycle.flushOut # <<>>
  /\ ~feed /\ ClientHasData(Client)

\* C11: when process returns a negative value, client_process returns that
\* value, no byte leaves the input buffer and feed is not invoked.
C11_ProcessErrorCloses ==
  (cycle.processes = 1 /\ cycle.processRet < 0) =>
    /\ result = cycle.processRet
    /\ inbuf = cycle.processArg
    /\ consumed \o cycle.processArg = received
    /\ cycle.feeds = 0
    /\ ~Served

\* process failed on two pending bytes
C11_Witness ==
  /\ last = "client_process" /\ cycle.processes = 1
  /\ cycle.processRet = ProcessError /\ result = ProcessError
  /\ Len(inbuf) = 2

\* C12: a bound session is freed only after the bound protocol's close was
\* called on its handle; for an unbound session no close is called.
C12_DisposeBeforeFree ==
  (~alive) =>
    LET closes == {i \in 1..Len(teardown) :
                     teardown[i] = "protocol->close(self)"}
        frees == {i \in 1..Len(teardown) : teardown[i] = "free(client)"}
    IN IF protocol # NULL
       THEN \E i \in closes : \A j \in frees : i < j
       ELSE closes = {}

\* C14: a write failing with an error other than would-block makes
\* client_process return a negative result with the output buffer as it
\* was offered and neither process nor feed invoked.
C14_FatalWriteCloses ==
  (cycle.writes = 1 /\ cycle.wrote < 0 /\ cycle.writeErr # "EWOULDBLOCK") =>
    /\ result < 0
    /\ cycle.flushOut = cycle.offered
    /\ outbuf = cycle.offered
    /\ written \o cycle.offered = appended
    /\ cycle.processes = 0 /\ cycle.feeds = 0 /\ ~cycle.dispatch

\* the write failed with input pending and the feed flag set
C14_Witness ==
  /\ cycle.writes = 1 /\ cycle.wrote < 0 /\ cycle.writeErr = "EPIPE"
  /\ inbuf # <<>> /\ feed /\ result = -1

\* the last cycle came to its flush step
FlushReached ==
  cycle.read \in {"data", "wouldblock"} /\ protocol # NULL

\* C15: a cycle attempts one write when its flush step finds the output
\* buffer non-empty and none otherwise; the write is offered the whole
\* buffer; what process or feed queue in the cycle stays in the buffer.
C15_OneWholeWrite ==
  LET atFlush == cycle.preOut \o cycle.openQueued
  IN /\ cycle.writes = (IF FlushReached /\ atFlush # <<>> THEN 1 ELSE 0)
     /\ cycle.writes = 1 => cycle.offered = atFlush
     /\ (last = "client_process" /\ FlushReached) =>
          outbuf = cycle.flushOut \o cycle.queued
     /\ (last = "client_process" /\ cycle.writes = 1 /\ cycle.wrote >= 0) =>
          written \o Suffix(cycle.offered, cycle.wrote) \o cycle.queued
            = appended

\* the write took two queued bytes, then process queued more, which stay
C15_Witness ==
  /\ last = "client_process" /\ cycle.writes = 1
  /\ Len(cycle.offered) = 2 /\ cycle.wrote = 2
  /\ cycle.processes = 1 /\ cycle.queued # <<>> /\ outbuf = cycle.queued

\* C18: a cycle invokes at most one of process and feed, at most once, and
\* only on a session that is bound and whose open has been called.
C18_ProcessOrFeedOnBound ==
  /\ cycle.processes \in {0, 1} /\ cycle.feeds \in {0, 1}
  /\ cycle.processes + cycle.feeds <= 1
  /\ (cycle.processes = 1 \/ cycle.feeds = 1) =>
       /\ protocol # NULL /\ self = protocol /\ opens = 1
       /\ cycle.preProtocol # NULL \/ cycle.opened = 1

\* process consumed the whole input with the feed flag set and nothing
\* queued: feed was not invoked
C18_Witness ==
  /\ last = "client_process" /\ cycle.processes = 1
  /\ cycle.processRet = Len(cycle.processArg)
  /\ inbuf = <<>> /\ outbuf = <<>> /\ feed /\ cycle.feeds = 0

\* C13: client_send appends the whole formatted message, whatever its
\* length: the loop ends with a buffer larger than the message, after one
\* pass when the message fits the first buffer and, with a vsnprintf that
\* reports the needed length n, after two when it does not; the output
\* buffer grows by exactly the n bytes of the message and n is returned.
C13_SendAppendsAll ==
  last = "client_send" =>
    /\ sent.ret = Len(sent.msg)
    /\ outbuf = sent.pre \o sent.msg
    /\ Len(outbuf) = Len(sent.pre) + sent.ret
    /\ sent.size > Len(sent.msg)
    /\ Len(sent.msg) < SendBufSize => (sent.passes = 1 /\ sent.size = SendBufSize)
    /\ (Len(sent.msg) >= SendBufSize /\ sent.libc = "c99") =>
         (sent.passes = 2 /\ sent.size = sent.ret + 1)

\* a message of exactly the first buffer's size, sent after another one
C13_Witness ==
  /\ last = "client_send" /\ sent.libc = "c99"
  /\ Len(sent.msg) = SendBufSize /\ sent.pre # <<>>
  /\ sent.passes = 2 /\ sent.ret = SendBufSize

\* non-empty decimal numbers separated by single commas
WellFormedList(f) ==
  /\ Len(f) > 0
  /\ f[1] \in Digits /\ f[Len(f)] \in Digits
  /\ \A i \in 1..Len(f) : f[i] \in Digits \cup {","}
  /\ \A i \in 1..(Len(f) - 1) : ~(f[i] = "," /\ f[i + 1] = ",")

\* C16: the filter query_filter stores for an id field holds only the
\* digits and commas of the input, in their order, and is a well-formed
\* comma-separated list of decimal numbers.
C16_IdFilterIsList ==
  (qlog.op = "query_filter" /\ qlog.field \in IdFields) =>
    LET f == query.filters[qlog.field]
    IN /\ f = SelectSeq(qlog.input, IsListChar)
       /\ WellFormedList(f)

\* C17: after query_start, the k-th '?' of the WHERE clause is bound, as
\* parameter k, to the filter text of the field whose clause holds it, and
\* as many parameters are bound as the clause has '?'.
C17_BindsMatchPlaceholders ==
  (qlog.op = "query_start" /\ qlog.ret = 0) =>
    /\ Len(qlog.holes) = Len(SelectSeq(qlog.sql, LAMBDA x : x = "?"))
    /\ Len(qlog.binds) = Len(qlog.holes)
    /\ \A k \in 1..Len(qlog.binds) :
         /\ qlog.binds[k].n = k
         /\ k <= Len(qlog.holes)
         /\ qlog.binds[k].field = qlog.holes[k]
         /\ qlog.binds[k].text = query.filters[qlog.holes[k]]

\* C19: when query_sort_from_string returns -1, the sort order is as it
\* was before the call.
C19_FailedSortLeavesOrder ==
  (qlog.op = "query_sort_from_string" /\ qlog.ret = -1) =>
    query.order = qlog.preOrder

====
